---- MODULE Spec2Model ----
(***************************************************************************)
(* A model of main.py: the scalar codec (encode_/decode_ float, datetime,  *)
(* boolean, int), the prefix row set, and the script main() run against a  *)
(* table of the column-family store.                                       *)
(*                                                                         *)
(* Values are modelled at their real width.  A Python int is a sign and a  *)
(* big-endian magnitude in base 256 (arbitrary precision), a float is the  *)
(* three fields of an IEEE-754 double (sign, 11-bit exponent, 52 fraction  *)
(* bits), bytes and str are sequences of byte values / code points.        *)
(*                                                                         *)
(* Four specifications share the variables:                                *)
(*   SpecCodec   one value is encoded and the bytes decoded, or a buffer   *)
(*               read from a cell is decoded;                              *)
(*   SpecPair    two values of one type are encoded;                       *)
(*   SpecPrefix  create_prefix_row_set and a read through its row set;     *)
(*   SpecMain    main(), from any prior content of the table.              *)
(***************************************************************************)
EXTENDS Integers, Sequences, FiniteSets

VARIABLES
    pc,      \* position of the running call sequence / of main()
    op,      \* the function called last
    inp,     \* the Python value handed to an encoder
    inp2,    \* a second value, for the runs that encode a pair
    enc,     \* the bytes an encoder returned (or a buffer read from a cell)
    enc2,    \* the encoding of inp2
    dec,     \* what a decoder returned
    prefix,  \* the argument of create_prefix_row_set
    row_set, \* the RowSet it returned
    selected \* the row keys a read through row_set returns

VARIABLES
    table,   \* the table of the store: whether it exists, its families, its rows
    before,  \* the table as it was when main() started
    row,     \* main's variable row: the row being written, or the row read last
    rows,    \* main's variable rows, as the list of the keys read
    row_keys \* main's variable row_keys

codec_vars == <<pc, op, inp, inp2, enc, enc2, dec, prefix, row_set, selected>>
main_vars == <<table, before, row, rows, row_keys>>
vars == <<codec_vars, main_vars>>

-----------------------------------------------------------------------------
(* Python values *)

None == [t |-> "none"]
Bytes(b) == [t |-> "bytes", b |-> b]
Str(s) == [t |-> "str", b |-> s]
PyBool(v) == [t |-> "bool", v |-> v]
PyInt(neg, mag) == [t |-> "int", neg |-> neg, mag |-> mag]
PyFloat(sign, exp, frac) == [t |-> "float", sign |-> sign, exp |-> exp, frac |-> frac]
\* an exception leaving the call: struct.error
StructError == [t |-> "error", kind |-> "struct.error"]

Byte == 0..255

-----------------------------------------------------------------------------
(* byte strings, big-endian arithmetic *)

Zeros(n) == [k \in 1..n |-> 0]

RECURSIVE Strip(_)
\* the magnitude without its leading zero bytes
Strip(s) == IF s = <<>> \/ s[1] # 0 THEN s ELSE Strip(Tail(s))

PadLeft(s, n) == Zeros(n - Len(s)) \o s

Invert(s) == [k \in 1..Len(s) |-> 255 - s[k]]

RECURSIVE AddOne(_)
\* s + 1 modulo 256^Len(s)
AddOne(s) ==
    IF s = <<>> THEN <<>>
    ELSE LET n == Len(s) IN
         IF s[n] < 255 THEN [s EXCEPT ![n] = s[n] + 1]
         ELSE AddOne(SubSeq(s, 1, n - 1)) \o <<0>>

\* two's complement negation modulo 256^Len(s)
Negate(s) == AddOne(Invert(s))

RECURSIVE BytesLess(_, _)
\* unsigned bytewise lexicographic order, the order of row keys and cell values
BytesLess(a, b) ==
    IF b = <<>> THEN FALSE
    ELSE IF a = <<>> THEN TRUE
    ELSE IF a[1] # b[1] THEN a[1] < b[1]
    ELSE BytesLess(Tail(a), Tail(b))

\* Python's < on ints
IntLess(i, j) ==
    LET MagLess(a, b) == Len(a) < Len(b) \/ (Len(a) = Len(b) /\ BytesLess(a, b)) IN
    IF i.neg /\ ~j.neg THEN TRUE
    ELSE IF ~i.neg /\ j.neg THEN FALSE
    ELSE IF i.neg THEN MagLess(j.mag, i.mag)
    ELSE MagLess(i.mag, j.mag)

-----------------------------------------------------------------------------
(* struct.pack / struct.unpack with the formats main.py uses *)

IntWidth == 8
FloatWidth == 8
BoolWidth == 1

\* -2^63 <= v <= 2^63 - 1
InInt64(v) ==
    \/ Len(v.mag) < IntWidth
    \/ /\ Len(v.mag) = IntWidth
       /\ \/ v.mag[1] < 128
          \/ v.neg /\ v.mag = <<128>> \o Zeros(IntWidth - 1)

\* no range check: the low 8 bytes of the two's complement
pack_q_wrapping(v) ==
    LET m == IF Len(v.mag) <= IntWidth THEN PadLeft(v.mag, IntWidth)
             ELSE SubSeq(v.mag, Len(v.mag) - IntWidth + 1, Len(v.mag)) IN
    Bytes(IF v.neg THEN Negate(m) ELSE m)

\* struct.pack(">q", v)
pack_q(v) ==
    IF ~InInt64(v) THEN StructError
    ELSE LET m == PadLeft(v.mag, IntWidth) IN
         Bytes(IF v.neg THEN Negate(m) ELSE m)

\* the buffer read as an unsigned integer (format ">Q")
unpack_q_unsigned(b) ==
    IF Len(b) # IntWidth THEN StructError ELSE PyInt(FALSE, Strip(b))

\* struct.unpack(">q", b)[0]
unpack_q(b) ==
    IF Len(b) # IntWidth THEN StructError
    ELSE IF b[1] >= 128 THEN PyInt(TRUE, Strip(Negate(b)))
    ELSE PyInt(FALSE, Strip(b))

\* struct.pack(">?", v)
pack_bool(v) == Bytes(IF v.v THEN <<1>> ELSE <<0>>)

\* struct.unpack(">?", b)[0]
unpack_bool(b) ==
    IF Len(b) # BoolWidth THEN StructError ELSE PyBool(b[1] # 0)

RECURSIVE ToBits(_, _)
\* the n low bits of x, most significant first
ToBits(x, n) == IF n = 0 THEN <<>> ELSE ToBits(x \div 2, n - 1) \o <<x % 2>>

RECURSIVE FromBits(_)
FromBits(bs) ==
    IF bs = <<>> THEN 0
    ELSE 2 * FromBits(SubSeq(bs, 1, Len(bs) - 1)) + bs[Len(bs)]

ExpBits == 11
FracBits == 52

\* struct.pack(">d", f): sign, exponent, fraction, most significant byte first
pack_d(f) ==
    LET bits == <<f.sign>> \o ToBits(f.exp, ExpBits) \o f.frac IN
    Bytes([k \in 1..FloatWidth |-> FromBits(SubSeq(bits, 8 * k - 7, 8 * k))])

\* struct.unpack(">d", b)[0]
unpack_d(b) ==
    IF Len(b) # FloatWidth THEN StructError
    ELSE LET bits == [k \in 1..(8 * FloatWidth) |->
                         ToBits(b[((k - 1) \div 8) + 1], 8)[((k - 1) % 8) + 1]] IN
         PyFloat(bits[1], FromBits(SubSeq(bits, 2, 1 + ExpBits)),
                 SubSeq(bits, 2 + ExpBits, 1 + ExpBits + FracBits))

MaxExp == 2047
IsNaN(f) == f.exp = MaxExp /\ f.frac # Zeros(FracBits)
IsFinite(f) == f.exp # MaxExp
IsZero(f) == f.exp = 0 /\ f.frac = Zeros(FracBits)
\* Python's == on floats
FloatEq(f, g) ==
    /\ ~IsNaN(f) /\ ~IsNaN(g)
    /\ (IsZero(f) /\ IsZero(g)) \/ f = g

-----------------------------------------------------------------------------
(* the codec of main.py *)

\* a mutant of encode_float: native byte order on a little-endian machine ("<d")
encode_float_little_endian(value) ==
    LET r == pack_d(value) IN
    Bytes([k \in 1..Len(r.b) |-> r.b[Len(r.b) + 1 - k]])

encode_float(value) == pack_d(value)

decode_float(value) == unpack_d(value)

encode_boolean(value) == pack_bool(value)

\* a mutant of decode_boolean: only the byte 0x01 is True
decode_boolean_strict(value) ==
    IF Len(value) # BoolWidth THEN StructError ELSE PyBool(value[1] = 1)

decode_boolean(value) == unpack_bool(value)

\* a mutant of encode_int: no range check, the value wraps modulo 2^64
encode_int_wrapping(value) == pack_q_wrapping(value)

\* a mutant of encode_int: little-endian ("<q")
encode_int_little_endian(value) ==
    LET r == pack_q(value) IN
    IF r.t = "error" THEN r ELSE Bytes([k \in 1..Len(r.b) |-> r.b[Len(r.b) + 1 - k]])

encode_int(value) == pack_q(value)

\* a mutant of decode_int: the buffer read as unsigned (">Q")
decode_int_unsigned(value) == unpack_q_unsigned(value)

\* a mutant of decode_int: a short buffer is padded, a long one truncated
decode_int_lenient(value) ==
    unpack_q(IF Len(value) <= IntWidth THEN PadLeft(value, IntWidth)
             ELSE SubSeq(value, 1, IntWidth))

decode_int(value) == unpack_q(value)

-----------------------------------------------------------------------------
(* datetime: the wall-clock fields as seconds counted from                 *)
(* 1970-01-01T00:00:00, whole seconds only, and the tzinfo (none for a     *)
(* naive datetime, else its UTC offset in seconds)                         *)

Datetime(secs, aware, off) ==
    [t |-> "datetime", secs |-> secs, aware |-> aware, off |-> off]

\* days from 1970-01-01 to the proleptic Gregorian date y-m-d
DaysFromCivil(y, m, d) ==
    LET yy == IF m <= 2 THEN y - 1 ELSE y
        era == yy \div 400
        yoe == yy - era * 400
        mp == IF m > 2 THEN m - 3 ELSE m + 9
        doy == (153 * mp + 2) \div 5 + d - 1
        doe == yoe * 365 + yoe \div 4 - yoe \div 100 + doy
    IN era * 146097 + doe - 719468

SecondsPerDay == 86400

\* datetime.datetime(y, m, d): naive, midnight
datetime(y, m, d) == Datetime(DaysFromCivil(y, m, d) * SecondsPerDay, FALSE, 0)

\* Python's == on datetimes: a naive and an aware one are never equal, two
\* aware ones are equal when they denote the same instant
DatetimeEq(a, b) ==
    IF a.aware # b.aware THEN FALSE
    ELSE IF a.aware THEN a.secs - a.off = b.secs - b.off
    ELSE a.secs = b.secs

ExpBias == 1023

RECURSIVE Log2(_)
\* floor(log2(a)), a >= 1
Log2(a) == IF a < 2 THEN 0 ELSE 1 + Log2(a \div 2)

\* float(n) for an integer |n| < 2^31 (exact: it has fewer than 53 bits)
IntToFloat(n) ==
    LET a == IF n < 0 THEN -n ELSE n
        e == Log2(a)
    IN IF a = 0 THEN PyFloat(0, 0, Zeros(FracBits))
       ELSE PyFloat(IF n < 0 THEN 1 ELSE 0, ExpBias + e,
                    ToBits(a, e) \o Zeros(FracBits - e))

\* f is an integer with |f| < 2^31
IsWholeSeconds(f) ==
    \/ IsZero(f)
    \/ /\ f.exp >= ExpBias /\ f.exp <= ExpBias + 30
       /\ \A k \in (f.exp - ExpBias + 1)..FracBits : f.frac[k] = 0

\* int(f) for such an f
FloatToInt(f) ==
    IF IsZero(f) THEN 0
    ELSE LET a == FromBits(<<1>> \o SubSeq(f.frac, 1, f.exp - ExpBias)) IN
         IF f.sign = 1 THEN -a ELSE a

\* value.replace(tzinfo=datetime.timezone.utc): the fields are kept, only the
\* tzinfo is set
replace_tzinfo_utc(value) == Datetime(value.secs, TRUE, 0)

\* value.timestamp() of an aware datetime: its instant, in epoch seconds
timestamp(value) == IntToFloat(value.secs - value.off)

\* datetime.datetime.utcfromtimestamp(f): naive, the UTC fields of the instant
utcfromtimestamp(f) == Datetime(FloatToInt(f), FALSE, 0)

\* a mutant of encode_datetime: no replace(tzinfo=...), so that timestamp() reads
\* a naive value as local time, here on a machine at UTC+02:00
encode_datetime_local(value) ==
    encode_float(IntToFloat(value.secs - (IF value.aware THEN value.off ELSE 7200)))

encode_datetime(value) == encode_float(timestamp(replace_tzinfo_utc(value)))

decode_datetime(value) ==
    LET f == decode_float(value) IN
    IF f.t = "error" THEN f ELSE utcfromtimestamp(f)

-----------------------------------------------------------------------------
(* the values the runs are started with *)

MaxIntBytes == 9
MaxBufLen == 9

\* n bytes: a first byte, a run of one fill byte, a last byte
Pattern(top, fill, last, n) ==
    IF n = 1 THEN <<top>>
    ELSE <<top>> \o [k \in 1..(n - 2) |-> fill] \o <<last>>

\* magnitudes of 0 to MaxIntBytes bytes, among them 2^63 - 1, 2^63 and 2^64 - 1
Magnitudes ==
    {<<>>} \cup {Pattern(top, fill, last, n) :
                    top \in {1, 127, 128, 255}, fill \in {0, 255},
                    last \in {0, 1, 255}, n \in 1..MaxIntBytes}

Ints == {PyInt(neg, mag) : neg \in BOOLEAN, mag \in Magnitudes} \ {PyInt(TRUE, <<>>)}

Fractions ==
    { Zeros(FracBits),
      [k \in 1..FracBits |-> 1],
      [k \in 1..FracBits |-> IF k = 1 THEN 1 ELSE 0],
      [k \in 1..FracBits |-> IF k = FracBits THEN 1 ELSE 0],
      [k \in 1..FracBits |-> k % 2] }

\* doubles: zeros, subnormals, normals (1.0 among them), infinities and NaNs
Floats ==
    {PyFloat(sign, exp, frac) :
        sign \in {0, 1}, exp \in {0, 1, ExpBias - 1, ExpBias, ExpBias + 1, MaxExp - 1, MaxExp},
        frac \in Fractions}

Booleans == {PyBool(FALSE), PyBool(TRUE)}

Jan1_2022 == datetime(2022, 1, 1)

\* wall-clock values, as seconds from 1970-01-01T00:00:00 (before and after it)
WallSeconds ==
    {-2000000000, -SecondsPerDay, -1, 0, 1, 59, 3600, SecondsPerDay - 1,
     Jan1_2022.secs, Jan1_2022.secs + 1, Jan1_2022.secs + 7200, 2000000000}

\* UTC offsets of aware datetimes, in seconds: +00:00, +02:00, -05:00, +05:30
Offsets == {0, 7200, -18000, 19800}

Datetimes ==
    {Datetime(s, FALSE, 0) : s \in WallSeconds}
        \cup {Datetime(s, TRUE, o) : s \in WallSeconds, o \in Offsets}

\* buffers of 0 to MaxBufLen bytes, every one-byte buffer among them
Buffers ==
    {<<>>} \cup {<<b>> : b \in Byte}
           \cup {Pattern(top, fill, last, n) :
                    top \in {0, 1, 63, 65, 127, 128, 191, 193, 255}, fill \in {0, 255},
                    last \in {0, 1, 255}, n \in 2..MaxBufLen}

-----------------------------------------------------------------------------
(* a value is encoded and the bytes are decoded; or a buffer read from a   *)
(* cell is decoded                                                          *)

NoPrefix == /\ prefix = None /\ row_set = None /\ selected = None

NoMain ==
    /\ table = None /\ before = None /\ row = None /\ rows = None /\ row_keys = None

InitCodec ==
    /\ \/ /\ inp \in Ints \cup Floats \cup Booleans \cup Datetimes
          /\ enc = None
          /\ pc = "call"
          /\ op = "none"
       \/ /\ inp = None
          /\ enc \in {Bytes(b) : b \in Buffers}
          /\ pc = "bytes"
          /\ op = "cell_value"
    /\ inp2 = None /\ enc2 = None /\ dec = None
    /\ NoPrefix
    /\ NoMain

\* where a call leaves the run: the bytes, the decoded value, or an exception
After(result, normal) == IF result.t = "error" THEN "raised" ELSE normal

Encode(name, type, result) ==
    /\ pc = "call"
    /\ inp.t = type
    /\ enc' = result
    /\ op' = name
    /\ pc' = After(result, "bytes")
    /\ UNCHANGED <<inp, inp2, enc2, dec, prefix, row_set, selected, main_vars>>

Decode(name, result) ==
    /\ pc = "bytes"
    /\ dec' = result
    /\ op' = name
    /\ pc' = After(result, "done")
    /\ UNCHANGED <<inp, inp2, enc, enc2, prefix, row_set, selected, main_vars>>

EncodeFloat == Encode("encode_float", "float", encode_float(inp))

EncodeDatetime == Encode("encode_datetime", "datetime", encode_datetime(inp))

EncodeBoolean == Encode("encode_boolean", "bool", encode_boolean(inp))

EncodeInt == Encode("encode_int", "int", encode_int(inp))

DecodeFloat == Decode("decode_float", decode_float(enc.b))

\* utcfromtimestamp is modelled on the doubles that are whole seconds with
\* |f| < 2^31; on a buffer of another length the unpack fails before it
DecodeDatetime ==
    /\ pc = "bytes"
    /\ Len(enc.b) = FloatWidth => IsWholeSeconds(decode_float(enc.b))
    /\ Decode("decode_datetime", decode_datetime(enc.b))

DecodeBoolean == Decode("decode_boolean", decode_boolean(enc.b))

DecodeInt == Decode("decode_int", decode_int(enc.b))

NextCodec ==
    \/ EncodeFloat \/ EncodeDatetime \/ EncodeBoolean \/ EncodeInt
    \/ DecodeFloat \/ DecodeDatetime \/ DecodeBoolean \/ DecodeInt

SpecCodec == InitCodec /\ [][NextCodec]_vars

-----------------------------------------------------------------------------
(* the claims about one value *)

RECURSIVE AddBytes(_, _, _)
\* a + b + carry, for big-endian a and b of one length: Len(a) + 1 bytes
AddBytes(a, b, carry) ==
    IF a = <<>> THEN <<carry>>
    ELSE LET n == Len(a)
             sum == a[n] + b[n] + carry
         IN AddBytes(SubSeq(a, 1, n - 1), SubSeq(b, 1, n - 1), sum \div 256)
                \o <<sum % 256>>

\* b is the 8-byte big-endian two's complement of v: v itself when v >= 0,
\* and 2^64 - |v| when v < 0
IsTwosComplement(b, v) ==
    /\ Len(b) = 8
    /\ IF v.neg
       THEN b[1] >= 128 /\ AddBytes(b, PadLeft(v.mag, 8), 0) = <<1>> \o Zeros(8)
       ELSE b[1] < 128 /\ b = PadLeft(v.mag, 8)

MinInt64 == PyInt(TRUE, <<128, 0, 0, 0, 0, 0, 0, 0>>)
TwoTo63 == PyInt(FALSE, <<128, 0, 0, 0, 0, 0, 0, 0>>)
MinusOne == PyInt(TRUE, <<1>>)
IntZero == PyInt(FALSE, <<>>)
FloatOne == PyFloat(0, ExpBias, Zeros(FracBits))

\* C1: for every integer i in [-2^63, 2^63 - 1], encode_int(i) is the 8-byte
\* big-endian two's complement of i, and decode_int(encode_int(i)) == i.
C1_IntRoundTrip ==
    (inp.t = "int" /\ InInt64(inp) /\ pc # "call") =>
        /\ enc.t = "bytes" /\ IsTwosComplement(enc.b, inp)
        /\ op = "decode_int" => dec = inp

\* -2^63 was encoded to 80 00 .. 00 and decoded back
C1_Witness ==
    /\ inp = MinInt64 /\ op = "decode_int"
    /\ enc.b = <<128, 0, 0, 0, 0, 0, 0, 0>> /\ dec = MinInt64

\* C3, as stated: for every UTC timestamp t of whole seconds, naive (its fields
\* read as UTC) or aware with tzinfo UTC, decode_datetime(encode_datetime(t)) == t.
C3_RoundTripEveryUtc ==
    (inp.t = "datetime" /\ (inp.aware => inp.off = 0) /\ op = "decode_datetime") =>
        (dec.t = "datetime" /\ DatetimeEq(dec, inp))

\* C3, amended: for a naive t of whole seconds, decode_datetime(encode_datetime(t))
\* == t; for an aware t with tzinfo UTC the result is the naive datetime with
\* the same fields, which Python's == does not hold equal to t.
C3_RoundTripNaive ==
    (inp.t = "datetime" /\ (inp.aware => inp.off = 0) /\ op = "decode_datetime") =>
        /\ dec = Datetime(inp.secs, FALSE, 0)
        /\ DatetimeEq(dec, inp) <=> ~inp.aware

\* datetime(2022, 1, 1) was encoded and decoded back to datetime(2022, 1, 1)
C3_Witness ==
    /\ inp = datetime(2022, 1, 1) /\ op = "decode_datetime"
    /\ DatetimeEq(dec, datetime(2022, 1, 1))

\* C4: encode_int of an integer outside [-2^63, 2^63 - 1] raises and returns
\* no bytes.
C4_OutOfRangeRaises ==
    (inp.t = "int" /\ ~InInt64(inp) /\ pc # "call") =>
        (op = "encode_int" /\ enc = StructError /\ pc = "raised" /\ dec = None)

\* encode_int(2^63) raised
C4_Witness == inp = TwoTo63 /\ op = "encode_int" /\ pc = "raised"

\* C5: decode_int, decode_float and decode_datetime raise on a buffer whose
\* length is not 8, decode_boolean on one whose length is not 1.
C5_WrongLengthRaises ==
    /\ (op \in {"decode_int", "decode_float", "decode_datetime"} /\ Len(enc.b) # 8)
           => (dec = StructError /\ pc = "raised")
    /\ (op = "decode_boolean" /\ Len(enc.b) # 1)
           => (dec = StructError /\ pc = "raised")

\* decode_int raised on a 3-byte buffer
C5_Witness == op = "decode_int" /\ enc.t = "bytes" /\ Len(enc.b) = 3 /\ pc = "raised"

\* C8: for every finite double x, encode_float(x) is 8 bytes and
\* decode_float(encode_float(x)) == x.
C8_FloatRoundTrip ==
    (inp.t = "float" /\ IsFinite(inp) /\ pc # "call") =>
        /\ enc.t = "bytes" /\ Len(enc.b) = 8
        /\ op = "decode_float" => (dec.t = "float" /\ FloatEq(dec, inp))

\* 1.0 was encoded to 3F F0 00 .. 00 and decoded back to 1.0
C8_Witness ==
    /\ inp = FloatOne /\ op = "decode_float"
    /\ enc.b = <<63, 240, 0, 0, 0, 0, 0, 0>> /\ dec = FloatOne

\* C9: encode_boolean(b) is one byte, 0x00 for False, and
\* decode_boolean(encode_boolean(b)) == b; decode_boolean maps the byte 0x00
\* to False and every byte 0x01..0xFF to True.
C9_BooleanRoundTrip ==
    /\ (inp.t = "bool" /\ pc # "call") =>
           /\ enc.t = "bytes" /\ Len(enc.b) = 1
           /\ ~inp.v => enc.b = <<0>>
           /\ op = "decode_boolean" => dec = inp
    /\ (op = "decode_boolean" /\ Len(enc.b) = 1) =>
           /\ enc.b[1] = 0 => dec = PyBool(FALSE)
           /\ enc.b[1] \in 1..255 => dec = PyBool(TRUE)

\* the byte 0xFF read from a cell was decoded to True
C9_Witness == inp = None /\ op = "decode_boolean" /\ enc.b = <<255>> /\ dec = PyBool(TRUE)

-----------------------------------------------------------------------------
(* two values of one type are encoded, the first one first *)

InitPair ==
    /\ \/ inp \in Ints /\ inp2 \in Ints
       \/ inp \in Booleans /\ inp2 \in Booleans
       \/ inp \in Datetimes /\ inp2 \in Datetimes
    /\ pc = "call" /\ op = "none"
    /\ enc = None /\ enc2 = None /\ dec = None
    /\ NoPrefix
    /\ NoMain

\* the second call is made only when the first has returned
EncodePair(name, type, first, second) ==
    /\ pc = "call"
    /\ inp.t = type
    /\ enc' = first
    /\ enc2' = IF first.t = "error" THEN None ELSE second
    /\ op' = name
    /\ pc' = IF first.t = "error" \/ second.t = "error" THEN "raised" ELSE "bytes"
    /\ UNCHANGED <<inp, inp2, dec, prefix, row_set, selected, main_vars>>

EncodeIntPair == EncodePair("encode_int", "int", encode_int(inp), encode_int(inp2))

EncodeBooleanPair ==
    EncodePair("encode_boolean", "bool", encode_boolean(inp), encode_boolean(inp2))

EncodeDatetimePair ==
    EncodePair("encode_datetime", "datetime", encode_datetime(inp), encode_datetime(inp2))

NextPair == EncodeIntPair \/ EncodeBooleanPair \/ EncodeDatetimePair

SpecPair == InitPair /\ [][NextPair]_vars

-----------------------------------------------------------------------------
(* the claims about two values *)

\* C6, as stated: for all i < j in [-2^63, 2^63 - 1], encode_int(i) is
\* bytewise less than encode_int(j), also when i < 0 <= j; and
\* encode_boolean(False) is bytewise less than encode_boolean(True).
C6_OrderPreserving ==
    /\ (op = "encode_int" /\ pc = "bytes" /\ IntLess(inp, inp2))
           => BytesLess(enc.b, enc2.b)
    /\ (op = "encode_boolean" /\ ~inp.v /\ inp2.v) => BytesLess(enc.b, enc2.b)

\* C6, amended: for i < j in [-2^63, 2^63 - 1] of one sign (both negative or
\* both non-negative) encode_int(i) is bytewise less than encode_int(j); when
\* i < 0 <= j the order is reversed: encode_int(j) is bytewise less than
\* encode_int(i). encode_boolean(False) is bytewise less than
\* encode_boolean(True).
C6_OrderWithinSign ==
    /\ (op = "encode_int" /\ pc = "bytes" /\ IntLess(inp, inp2)) =>
           IF inp.neg = inp2.neg THEN BytesLess(enc.b, enc2.b)
           ELSE BytesLess(enc2.b, enc.b)
    /\ (op = "encode_boolean" /\ ~inp.v /\ inp2.v) => BytesLess(enc.b, enc2.b)

\* -1 and 0 were encoded, and the encoding of 0 is bytewise the smaller one
C6_Witness ==
    /\ op = "encode_int" /\ inp = MinusOne /\ inp2 = IntZero
    /\ enc.b = <<255, 255, 255, 255, 255, 255, 255, 255>> /\ enc2.b = Zeros(8)
    /\ BytesLess(enc2.b, enc.b)

\* C7: two aware timestamps that denote one instant in different UTC offsets
\* encode to the same bytes, and the encoded value is the epoch seconds of
\* that instant.
C7_SameInstantSameBytes ==
    (/\ op = "encode_datetime"
     /\ inp.aware /\ inp2.aware /\ inp.off # inp2.off
     /\ inp.secs - inp.off = inp2.secs - inp2.off) =>
        /\ enc = enc2
        /\ decode_float(enc.b) = IntToFloat(inp.secs - inp.off)

-----------------------------------------------------------------------------
(* create_prefix_row_set *)

\* code points: '#' and the digits '1'..'4'
Hash == 35
Digits == {49, 50, 51, 52}

\* str(b) of a bytes object whose bytes are printable ASCII other than the
\* quote and the backslash: b'...'
bytes_repr(b) == <<98, 39>> \o b \o <<39>>

\* f"{prefix}#": format() of a str is the str, of a bytes object its repr
fstring_hash(p) == (IF p.t = "str" THEN p.b ELSE bytes_repr(p.b)) \o <<Hash>>

RECURSIVE Utf8(_)
\* s.encode("utf-8"), for code points below 0x800
Utf8(s) ==
    IF s = <<>> THEN <<>>
    ELSE (IF s[1] < 128 THEN <<s[1]>>
          ELSE <<192 + (s[1] \div 64), 128 + (s[1] % 64)>>) \o Utf8(Tail(s))

\* RowSet.add_row_range_with_prefix(p) on an empty RowSet: the range from p
\* (inclusive) to p with its last character incremented (exclusive)
add_row_range_with_prefix(p) ==
    LET n == Len(p)
        end_key == SubSeq(p, 1, n - 1) \o <<p[n] + 1>>
    IN [row_keys |-> {},
        row_ranges |-> {[start_key |-> Utf8(p), end_key |-> Utf8(end_key)]}]

create_prefix_row_set(p) == add_row_range_with_prefix(fstring_hash(p))

\* whether a read through row_set returns the row of this key
InRowSet(key, rs) ==
    \/ key \in rs.row_keys
    \/ \E r \in rs.row_ranges :
           /\ key = r.start_key \/ BytesLess(r.start_key, key)
           /\ BytesLess(key, r.end_key)

\* the keys table.read_rows(row_set=rs) returns, of a table with these keys
SelectKeys(keys, rs) == {k \in keys : InRowSet(k, rs)}

MaxPrefixLen == 3
MaxKeyLen == 5

Strings(chars, n) == UNION {[1..k -> chars] : k \in 1..n}

\* ids of 1 to MaxPrefixLen digits, given as str and as bytes
Prefixes ==
    {Str(s) : s \in Strings(Digits, MaxPrefixLen)}
        \cup {Bytes(s) : s \in Strings(Digits, MaxPrefixLen)}

\* row keys of 1 to MaxKeyLen characters among the digits, '#' and '$'
KeyUniverse == Strings(Digits \cup {Hash, Hash + 1}, MaxKeyLen)

InitPrefix ==
    /\ prefix \in Prefixes
    /\ row_set = None /\ selected = None
    /\ pc = "call" /\ op = "none"
    /\ inp = None /\ inp2 = None /\ enc = None /\ enc2 = None /\ dec = None
    /\ NoMain

CreatePrefixRowSet ==
    /\ pc = "call"
    /\ row_set' = create_prefix_row_set(prefix)
    /\ op' = "create_prefix_row_set"
    /\ pc' = "row_set"
    /\ UNCHANGED <<inp, inp2, enc, enc2, dec, prefix, selected, main_vars>>

\* the row set read against a table that holds a row for every key
ReadRowsPrefix ==
    /\ pc = "row_set"
    /\ selected' = SelectKeys(KeyUniverse, row_set)
    /\ op' = "read_rows"
    /\ pc' = "read"
    /\ UNCHANGED <<inp, inp2, enc, enc2, dec, prefix, row_set, main_vars>>

NextPrefix == CreatePrefixRowSet \/ ReadRowsPrefix

SpecPrefix == InitPrefix /\ [][NextPrefix]_vars

StartsWith(k, p) == Len(k) >= Len(p) /\ SubSeq(k, 1, Len(p)) = p

K123_1 == <<49, 50, 51, Hash, 49>>
K123_2 == <<49, 50, 51, Hash, 50>>
K123_3 == <<49, 50, 51, Hash, 51>>
K124_1 == <<49, 50, 52, Hash, 49>>
K125_1 == <<49, 50, 53, Hash, 49>>
K12_1 == <<49, 50, Hash, 49>>

\* C2: for every prefix p, str or bytes, the row set selects exactly the keys
\* that begin with p followed by '#'; for p = "123" the keys "123#1" and
\* "123#2" are selected and "124#1" and "12#1" are not.
C2_ExactlyThePrefix ==
    pc = "read" =>
        /\ selected = {k \in KeyUniverse : StartsWith(k, prefix.b \o <<Hash>>)}
        /\ prefix.b = <<49, 50, 51>> =>
               /\ {K123_1, K123_2} \subseteq selected
               /\ K124_1 \notin selected /\ K12_1 \notin selected

\* the part of C2 that holds: for a str prefix the row set selects exactly
\* the keys that begin with p followed by '#'
C2_StrPrefixExact ==
    (pc = "read" /\ prefix.t = "str") =>
        selected = {k \in KeyUniverse : StartsWith(k, prefix.b \o <<Hash>>)}

-----------------------------------------------------------------------------
(* the values main() stores besides the codec's: str, bson, repr of a list *)

RECURSIVE Utf8Decode(_)
\* b.decode(), for the one- and two-byte sequences Utf8 produces
Utf8Decode(b) ==
    IF b = <<>> THEN <<>>
    ELSE IF b[1] < 128 THEN <<b[1]>> \o Utf8Decode(Tail(b))
    ELSE <<(b[1] - 192) * 64 + (b[2] - 128)>> \o Utf8Decode(Tail(Tail(b)))

\* a 32-bit little-endian length, for lengths below 2^16
Int32LE(n) == <<n % 256, n \div 256, 0, 0>>

FromInt32LE(b, i) == b[i] + 256 * b[i + 1]

RECURSIVE BsonElements(_)
\* the elements of a document whose values are strings: type 0x02, the name
\* as a C string, the value's length with its terminator, the value, 0x00
BsonElements(doc) ==
    IF doc = <<>> THEN <<>>
    ELSE LET name == Utf8(doc[1][1])
             val == Utf8(doc[1][2])
         IN <<2>> \o name \o <<0>> \o Int32LE(Len(val) + 1) \o val \o <<0>>
                \o BsonElements(Tail(doc))

\* bson.dumps(doc): the total length, the elements, 0x00
bson_dumps(doc) ==
    LET body == BsonElements(doc) \o <<0>> IN Int32LE(4 + Len(body)) \o body

RECURSIVE CStringEnd(_, _)
\* the index of the first 0x00 at or after i
CStringEnd(b, i) == IF b[i] = 0 THEN i ELSE CStringEnd(b, i + 1)

RECURSIVE BsonParse(_, _)
\* the elements from index i up to the document's terminator
BsonParse(b, i) ==
    IF b[i] = 0 THEN <<>>
    ELSE LET z == CStringEnd(b, i + 1)
             n == FromInt32LE(b, z + 1)
         IN <<<<Utf8Decode(SubSeq(b, i + 1, z - 1)),
                Utf8Decode(SubSeq(b, z + 5, z + 3 + n))>>>>
                \o BsonParse(b, z + 5 + n)

\* bson.loads(b)
bson_loads(b) == BsonParse(b, 5)

RECURSIVE ListItems(_)
ListItems(l) ==
    IF l = <<>> THEN <<>>
    ELSE <<39>> \o l[1] \o <<39>>
             \o (IF Len(l) > 1 THEN <<44, 32>> ELSE <<>>) \o ListItems(Tail(l))

\* str(l) of a list of strs without quotes or escapes: ['a', 'b']
list_str(l) == <<91>> \o ListItems(l) \o <<93>>

RECURSIVE QuoteEnd(_, _)
\* the index of the first quote at or after i
QuoteEnd(s, i) == IF s[i] = 39 THEN i ELSE QuoteEnd(s, i + 1)

RECURSIVE EvalItems(_, _)
\* the items from index i, which holds a quote or the closing bracket
EvalItems(s, i) ==
    IF s[i] = 93 THEN <<>>
    ELSE LET q == QuoteEnd(s, i + 1) IN
         <<SubSeq(s, i + 1, q - 1)>>
             \o EvalItems(s, IF s[q + 1] = 44 THEN q + 3 ELSE q + 1)

\* ast.literal_eval(s) of such a list display
literal_eval(s) == EvalItems(s, 2)

-----------------------------------------------------------------------------
(* the table of the store, as main() uses it *)

\* a cell is named by its family and its column qualifier; the GC rule of
\* family W, MaxVersionsGCRule(1), keeps the newest value of each cell
Cell(family, column, value) == [family |-> family, column |-> column, value |-> value]

AbsentTable == [exists |-> FALSE, families |-> {}, rows |-> <<>>]

\* table.create(column_families=column_families)
create(t, column_families) ==
    [exists |-> TRUE, families |-> column_families, rows |-> <<>>]

\* a mutant of truncate: the rows are kept
truncate_keeps_rows(t) == t

\* table.truncate(): every row is deleted, the families stay
truncate(t) == [t EXCEPT !.rows = <<>>]

\* table.direct_row(key)
direct_row(key) == [t |-> "row", row_key |-> key, cells |-> <<>>]

\* row.set_cell(family, column, value)
set_cell(r, family, column, value) ==
    [r EXCEPT !.cells = Append(@, Cell(family, column, value))]

\* row.commit(): the mutations are applied to the row of the key. The store
\* refuses a mutation of a family the table does not have, and the status
\* commit() returns is dropped by main()
commit(t, r) ==
    IF ~t.exists \/ \E k \in 1..Len(r.cells) : r.cells[k].family \notin t.families
    THEN t
    ELSE LET old == IF r.row_key \in DOMAIN t.rows THEN t.rows[r.row_key] ELSE <<>>
             written == {<<r.cells[k].family, r.cells[k].column>> : k \in 1..Len(r.cells)}
             Last(c) == CHOOSE k \in 1..Len(r.cells) :
                            /\ <<r.cells[k].family, r.cells[k].column>> = c
                            /\ \A j \in (k + 1)..Len(r.cells) :
                                   <<r.cells[j].family, r.cells[j].column>> # c
             new == [c \in DOMAIN old \cup written |->
                        IF c \in written THEN r.cells[Last(c)].value ELSE old[c]]
         IN [t EXCEPT !.rows =
                [k \in DOMAIN t.rows \cup {r.row_key} |->
                    IF k = r.row_key THEN new ELSE t.rows[k]]]

RECURSIVE Sorted(_)
\* the keys in the order of the store: bytewise ascending
Sorted(keys) ==
    IF keys = {} THEN <<>>
    ELSE LET least == CHOOSE k \in keys : \A j \in keys \ {k} : BytesLess(k, j)
         IN <<least>> \o Sorted(keys \ {least})

\* the keys of [row for row in table.read_rows()]
read_rows(t) == Sorted(DOMAIN t.rows)

\* the keys of the rows table.read_rows(row_set=rs) yields
read_rows_row_set(t, rs) == Sorted(SelectKeys(DOMAIN t.rows, rs))

\* table.read_row(key)
read_row(t, key) ==
    IF key \in DOMAIN t.rows
    THEN [t |-> "row", row_key |-> key, cells |-> t.rows[key]]
    ELSE None

\* row.cell_value(family, column)
cell_value(r, family, column) == r.cells[<<family, column>>]

-----------------------------------------------------------------------------
(* main() *)

\* "str", {"a": "b"}, ["a", "b"], 1, 1.0 and the keys main() reads and writes
StrValue == Str(<<115, 116, 114>>)
DictValue == <<<<(<<97>>), (<<98>>)>>>>
ListValue == <<(<<97>>), (<<98>>)>>
IntOne == PyInt(FALSE, <<1>>)

\* what the table may hold when main() starts: rows under some of these keys,
\* each with cells of an earlier run or of another writer
PriorKeys == {K123_1, K123_2, K123_3, K124_1, K125_1, K12_1}

PriorCells(families) ==
    {[c \in {<<"W", "col_bool">>} |-> <<1>>],
     [c \in {<<"W", "col_int">>, <<"W", "col_old">>} |-> <<0, 0, 0, 0, 0, 0, 0, 7>>]}
        \cup {[c \in {<<f, "col_other">>} |-> <<0>>] : f \in families \ {"W"}}

\* the table does not exist, or it exists with the family W that main() writes
\* to (and perhaps a second family) and any of the prior rows
PriorTables ==
    {AbsentTable}
        \cup UNION {UNION {{[exists |-> TRUE, families |-> fs, rows |-> rs] :
                               rs \in [keys -> PriorCells(fs)]} :
                           keys \in SUBSET PriorKeys} :
                    fs \in {{"W"}, {"W", "X"}}}

InitMain ==
    /\ table \in PriorTables
    /\ before = table
    /\ row = None /\ rows = None /\ row_keys = None
    /\ pc = "L74" /\ op = "none"
    /\ inp = None /\ inp2 = None /\ enc = None /\ enc2 = None /\ dec = None
    /\ NoPrefix

Goto(next) ==
    /\ pc' = next
    /\ UNCHANGED <<op, inp, inp2, enc, enc2, dec, prefix, selected, before>>

\* lines 73-75
CreateTable ==
    /\ pc = "L74"
    /\ ~table.exists
    /\ table' = create(table, {"W"})
    /\ Goto("L81")
    /\ UNCHANGED <<row, rows, row_keys, row_set>>

\* lines 76-78
TruncateTable ==
    /\ pc = "L74"
    /\ table.exists
    /\ table' = truncate(table)
    /\ Goto("L81")
    /\ UNCHANGED <<row, rows, row_keys, row_set>>

\* the row is built and committed
Write(at, r, next) ==
    /\ pc = at
    /\ row' = r
    /\ table' = commit(table, r)
    /\ Goto(next)
    /\ UNCHANGED <<rows, row_keys, row_set>>

\* lines 81-83
WriteRow123_1 ==
    Write("L81",
          set_cell(direct_row(K123_1), "W", "col_bool", encode_boolean(PyBool(FALSE)).b),
          "L84")

Row123_2 ==
    LET r0 == direct_row(K123_2)
        r1 == set_cell(r0, "W", "col_bool", encode_boolean(PyBool(TRUE)).b)
        r2 == set_cell(r1, "W", "col_int", encode_int(IntOne).b)
        r3 == set_cell(r2, "W", "col_str", Utf8(StrValue.b))
        r4 == set_cell(r3, "W", "col_float", encode_float(FloatOne).b)
        r5 == set_cell(r4, "W", "col_dict", bson_dumps(DictValue))
        r6 == set_cell(r5, "W", "col_list", Utf8(list_str(ListValue)))
    IN set_cell(r6, "W", "col_timestamp", encode_datetime(datetime(2022, 1, 1)).b)

\* lines 84-92
WriteRow123_2 == Write("L84", Row123_2, "L93")

\* lines 93-95
WriteRow124_1 ==
    Write("L93",
          set_cell(direct_row(K124_1), "W", "col_bool", encode_boolean(PyBool(FALSE)).b),
          "L97")

\* where an assert leaves the run
AssertThen(cond, next) == IF cond THEN next ELSE "AssertionError"

\* lines 97-99
ReadAllRows ==
    /\ pc = "L97"
    /\ rows' = read_rows(table)
    /\ Goto(AssertThen(Len(rows') = 3, "L100"))
    /\ UNCHANGED <<table, row, row_keys, row_set>>

\* lines 100-102
ReadPrefixRows ==
    /\ pc = "L100"
    /\ row_set' = create_prefix_row_set(Str(<<49, 50, 51>>))
    /\ rows' = read_rows_row_set(table, row_set')
    /\ row_keys' = [k \in 1..Len(rows') |-> Utf8Decode(rows'[k])]
    /\ Goto(AssertThen(row_keys' = <<K123_1, K123_2>>, "L103"))
    /\ UNCHANGED <<table, row>>

\* lines 103-104
ReadRow124_1 ==
    /\ pc = "L103"
    /\ row' = read_row(table, K124_1)
    /\ Goto(AssertThen(row' # None, "L105"))
    /\ UNCHANGED <<table, rows, row_keys, row_set>>

\* lines 105-106
ReadRow125_1 ==
    /\ pc = "L105"
    /\ row' = read_row(table, K125_1)
    /\ Goto(AssertThen(row' = None, "L107"))
    /\ UNCHANGED <<table, rows, row_keys, row_set>>

\* the asserts of lines 108-114 on the row read
CellsDecode(r) ==
    /\ decode_boolean(cell_value(r, "W", "col_bool")) = PyBool(TRUE)
    /\ decode_int(cell_value(r, "W", "col_int")) = IntOne
    /\ Utf8Decode(cell_value(r, "W", "col_str")) = StrValue.b
    /\ LET f == decode_float(cell_value(r, "W", "col_float")) IN
           f.t = "float" /\ FloatEq(f, FloatOne)
    /\ bson_loads(cell_value(r, "W", "col_dict")) = DictValue
    /\ literal_eval(Utf8Decode(cell_value(r, "W", "col_list"))) = ListValue
    /\ LET d == decode_datetime(cell_value(r, "W", "col_timestamp")) IN
           d.t = "datetime" /\ DatetimeEq(d, datetime(2022, 1, 1))

\* lines 107-114; cell_value of None raises AttributeError
ReadRow123_2 ==
    /\ pc = "L107"
    /\ row' = read_row(table, K123_2)
    /\ Goto(IF row' = None THEN "raised" ELSE AssertThen(CellsDecode(row'), "done"))
    /\ UNCHANGED <<table, rows, row_keys, row_set>>

NextMain ==
    \/ CreateTable \/ TruncateTable
    \/ WriteRow123_1 \/ WriteRow123_2 \/ WriteRow124_1
    \/ ReadAllRows \/ ReadPrefixRows
    \/ ReadRow124_1 \/ ReadRow125_1 \/ ReadRow123_2

SpecMain == InitMain /\ [][NextMain]_vars

====
